---------------------------- MODULE Spec2Model ----------------------------
(***************************************************************************)
(* Model of generate_cards_pdf.py: quantity resolution, image collection,  *)
(* the grid cursor of save_pdf and the size-bounded emitter                *)
(* generate_pdf_with_size_limit.                                           *)
(*                                                                         *)
(* Python strings are modelled as sequences of one-character strings, so   *)
(* that lower(), strip(), split(), replace(), splitext() and the regular   *)
(* expression of parse_quantity_from_name are computed, not assumed.       *)
(***************************************************************************)
EXTENDS Integers, Sequences, FiniteSets, TLC

\* Python's None.  A variable that holds a path or None holds << >> for None;
\* a variable that holds a natural number or None holds -1 for None.
NonePath == << >>

NoneInt == 0 - 1

\* No exception.
NoError == "none"

(***************************************************************************)
(* Characters and the str primitives the script uses.                      *)
(***************************************************************************)
LowerChars == << "a", "b", "c", "d", "e", "f", "g", "h", "i", "j", "k", "l", "m",
                 "n", "o", "p", "q", "r", "s", "t", "u", "v", "w", "x", "y", "z" >>

UpperChars == << "A", "B", "C", "D", "E", "F", "G", "H", "I", "J", "K", "L", "M",
                 "N", "O", "P", "Q", "R", "S", "T", "U", "V", "W", "X", "Y", "Z" >>

DigitChars == << "0", "1", "2", "3", "4", "5", "6", "7", "8", "9" >>

HexChars == << "0", "1", "2", "3", "4", "5", "6", "7", "8", "9",
               "a", "b", "c", "d", "e", "f" >>

Range(s) == { s[i] : i \in DOMAIN s }

IndexIn(c, chars) == CHOOSE i \in DOMAIN chars : chars[i] = c

IsDigit(c) == c \in Range(DigitChars)

DigitVal(c) == IndexIn(c, DigitChars) - 1

\* Code point of a character (ASCII), the order str comparison uses.
Ord(c) ==
    CASE c \in Range(LowerChars) -> 96 + IndexIn(c, LowerChars)
      [] c \in Range(UpperChars) -> 64 + IndexIn(c, UpperChars)
      [] c \in Range(DigitChars) -> 47 + IndexIn(c, DigitChars)
      [] c = "\t" -> 9
      [] c = "\n" -> 10
      [] c = "\r" -> 13
      [] c = " " -> 32
      [] c = "+" -> 43
      [] c = "," -> 44
      [] c = "-" -> 45
      [] c = "." -> 46
      [] c = "/" -> 47
      [] c = "_" -> 95

Whitespace == { " ", "\t", "\n", "\r" }

LowerChar(c) == IF c \in Range(UpperChars) THEN LowerChars[IndexIn(c, UpperChars)] ELSE c

\* str.lower()
Lower(s) == [ i \in 1..Len(s) |-> LowerChar(s[i]) ]

\* s < t on str: lexicographic by code point, a proper prefix is smaller.
StrLess(s, t) ==
    LET n == IF Len(s) < Len(t) THEN Len(s) ELSE Len(t)
        diff == { i \in 1..n : s[i] # t[i] }
    IN  IF diff = {}
        THEN Len(s) < Len(t)
        ELSE LET d == CHOOSE i \in diff : \A j \in diff : i <= j
             IN  Ord(s[d]) < Ord(t[d])

\* True when p occurs in s starting at index i (1-based).
OccursAt(s, p, i) ==
    /\ i >= 1
    /\ i + Len(p) - 1 <= Len(s)
    /\ \A j \in 1..Len(p) : s[i + j - 1] = p[j]

\* str.startswith / str.endswith
StartsWith(s, p) == OccursAt(s, p, 1)

EndsWith(s, p) == OccursAt(s, p, Len(s) - Len(p) + 1)

\* str.strip(): leading and trailing whitespace removed.
Strip(s) ==
    LET keep == { i \in 1..Len(s) : s[i] \notin Whitespace }
    IN  IF keep = {}
        THEN << >>
        ELSE LET lo == CHOOSE i \in keep : \A j \in keep : i <= j
                 hi == CHOOSE i \in keep : \A j \in keep : j <= i
             IN  SubSeq(s, lo, hi)

\* str.split(sep) for a one-character separator: the fields between separators.
RECURSIVE Split(_, _)
Split(s, sep) ==
    LET at == { i \in 1..Len(s) : s[i] = sep }
    IN  IF at = {}
        THEN << s >>
        ELSE LET k == CHOOSE i \in at : \A j \in at : i <= j
             IN  << SubSeq(s, 1, k - 1) >> \o Split(SubSeq(s, k + 1, Len(s)), sep)

\* str.replace(old, new): every non-overlapping occurrence, leftmost first.
RECURSIVE Replace(_, _, _)
Replace(s, old, new) ==
    IF s = << >>
    THEN << >>
    ELSE IF OccursAt(s, old, 1)
         THEN new \o Replace(SubSeq(s, Len(old) + 1, Len(s)), old, new)
         ELSE << s[1] >> \o Replace(Tail(s), old, new)

\* Value of a sequence of decimal digits.
RECURSIVE DigitsValue(_)
DigitsValue(ds) ==
    IF ds = << >>
    THEN 0
    ELSE 10 * DigitsValue(SubSeq(ds, 1, Len(ds) - 1)) + DigitVal(ds[Len(ds)])

\* str(n) for a natural number (the f-string of line 60).
RECURSIVE Str(_)
Str(n) == IF n < 10 THEN << DigitChars[n + 1] >>
          ELSE Str(n \div 10) \o << DigitChars[(n % 10) + 1] >>

\* int(s) on an already stripped str: optional sign, digits, single underscores
\* between digits.  ok = FALSE stands for ValueError.
ParseInt(s) ==
    LET signed == s # << >> /\ s[1] \in { "+", "-" }
        body == IF signed THEN Tail(s) ELSE s
        valid == /\ body # << >>
                 /\ \A i \in 1..Len(body) : IsDigit(body[i]) \/ body[i] = "_"
                 /\ IsDigit(body[1])
                 /\ IsDigit(body[Len(body)])
                 /\ \A i \in 1..(Len(body) - 1) : ~(body[i] = "_" /\ body[i + 1] = "_")
        mag == DigitsValue(SelectSeq(body, IsDigit))
    IN  IF valid
        THEN [ ok |-> TRUE, val |-> IF signed /\ s[1] = "-" THEN 0 - mag ELSE mag ]
        ELSE [ ok |-> FALSE, val |-> 0 ]

\* os.path.join(root, f)
PathJoin(root, f) == IF EndsWith(root, << "/" >>) THEN root \o f ELSE root \o << "/" >> \o f

\* os.path.splitext(f)[0] for a file name without directory part: cut at the
\* last dot unless only dots precede it.
SplitextRoot(f) ==
    LET dots == { i \in 1..Len(f) : f[i] = "." }
    IN  IF dots = {}
        THEN f
        ELSE LET d == CHOOSE i \in dots : \A j \in dots : j <= i
             IN  IF \E j \in 1..(d - 1) : f[j] # "."
                 THEN SubSeq(f, 1, d - 1)
                 ELSE f

(***************************************************************************)
(* Quantity handling.                                                      *)
(***************************************************************************)
\* re.search(r'-x(\d+)', filename): leftmost '-x' followed by a digit, then
\* the longest run of digits; 1 when there is no match.
parse_quantity_from_name(filename) ==
    LET hits == { i \in 1..Len(filename) :
                    /\ OccursAt(filename, << "-", "x" >>, i)
                    /\ i + 2 <= Len(filename)
                    /\ IsDigit(filename[i + 2]) }
    IN  IF hits = {}
        THEN 1
        ELSE LET m == CHOOSE i \in hits : \A j \in hits : i <= j
                 stop == { e \in (m + 2)..Len(filename) :
                             /\ \A j \in (m + 2)..e : IsDigit(filename[j])
                             /\ (e = Len(filename) \/ ~IsDigit(filename[e + 1])) }
                 e == CHOOSE x \in stop : TRUE
             IN  DigitsValue(SubSeq(filename, m + 2, e))

EmptyMap == [ k \in {} |-> 0 ]

\* qty_map[name] = qty
MapPut(map, k, v) == [ x \in (DOMAIN map) \cup { k } |-> IF x = k THEN v ELSE map[x] ]

\* One iteration of the loop of parse_quantity_file (lines 26-29) on the map
\* built so far; raised = TRUE stands for the exception that ends the loop.
ParseLine(map, line) ==
    IF "," \notin Range(line)
    THEN [ map |-> map, raised |-> FALSE ]
    ELSE LET fields == Split(Strip(line), ",")
         IN  IF Len(fields) # 2
             THEN [ map |-> map, raised |-> TRUE ]
             ELSE LET q == ParseInt(Strip(fields[2]))
                  IN  IF q.ok
                      THEN [ map |-> MapPut(map, Strip(fields[1]), q.val), raised |-> FALSE ]
                      ELSE [ map |-> map, raised |-> TRUE ]

\* The loop of lines 26-29 from line i on; the except clause of lines 30-31
\* only prints, so the map returned at line 32 is the map built before the
\* failing line.
RECURSIVE ParseLines(_, _, _)
ParseLines(lines, i, map) ==
    IF i > Len(lines)
    THEN [ qty_map |-> map, warned |-> FALSE ]
    ELSE LET r == ParseLine(map, lines[i])
         IN  IF r.raised
             THEN [ qty_map |-> r.map, warned |-> TRUE ]
             ELSE ParseLines(lines, i + 1, r.map)

\* parse_quantity_file(path); file = [readable, lines] is what open(path)
\* gives: open() raising leaves qty_map empty.
parse_quantity_file(file) ==
    IF ~file.readable
    THEN [ qty_map |-> EmptyMap, warned |-> TRUE ]
    ELSE ParseLines(file.lines, 1, EmptyMap)


(***************************************************************************)
(* collect_images.  os.walk(folder) yields the directories of the tree top *)
(* down; `walk` is that sequence, each directory with its path (root) and  *)
(* its file names in the enumeration order of the file system; `contents`  *)
(* gives, for the path of a quantity file, what open() finds there.        *)
(***************************************************************************)
SortKeyRaw(f) == f

\* key=lambda x: x.lower() of line 39
SortKey(f) == Lower(f)

\* sorted(files, key=...): stable, ties keep their enumeration order.
RECURSIVE SortedFiles(_)
SortedFiles(files) ==
    IF files = << >>
    THEN << >>
    ELSE LET x == files[Len(files)]
             rest == SortedFiles(SubSeq(files, 1, Len(files) - 1))
             k == Cardinality({ i \in 1..Len(rest) : ~StrLess(SortKey(x), SortKey(rest[i])) })
         IN  SubSeq(rest, 1, k) \o << x >> \o SubSeq(rest, k + 1, Len(rest))

IsQuantityFile(f) ==
    /\ \/ StartsWith(Lower(f), << "c", "a", "r", "d", "s" >>)
       \/ StartsWith(Lower(f), << "q", "u", "a", "n", "t", "i", "t", "i", "e", "s" >>)
    /\ EndsWith(Lower(f), << ".", "t", "x", "t" >>)

IsImage(f) ==
    \/ EndsWith(Lower(f), << ".", "j", "p", "g" >>)
    \/ EndsWith(Lower(f), << ".", "j", "p", "e", "g" >>)
    \/ EndsWith(Lower(f), << ".", "p", "n", "g" >>)

\* next((f for f in files if ...), None) on the sorted names
QuantityFileOf(sorted) ==
    LET hits == { i \in 1..Len(sorted) : IsQuantityFile(sorted[i]) }
    IN  IF hits = {}
        THEN NonePath
        ELSE sorted[CHOOSE i \in hits : \A j \in hits : i <= j]

\* qty_map of line 44 for the directory root with the file names files
QtyMapOf(root, files, contents) ==
    LET quantity_file == QuantityFileOf(SortedFiles(files))
    IN  IF quantity_file = NonePath
        THEN [ qty_map |-> EmptyMap, warned |-> FALSE ]
        ELSE parse_quantity_file(contents[PathJoin(root, quantity_file)])

ResolveQtyByFileName(qty_map, f) ==
    IF f \in DOMAIN qty_map THEN qty_map[f] ELSE parse_quantity_from_name(f)

\* qty_map.get(name, parse_quantity_from_name(f)) with name = splitext(f)[0]
ResolveQty(qty_map, f) ==
    LET name == SplitextRoot(f)
    IN  IF name \in DOMAIN qty_map THEN qty_map[name] ELSE parse_quantity_from_name(f)

\* for _ in range(qty): image_entries.append(x)   (nothing when qty <= 0)
Copies(x, qty) == [ i \in 1..qty |-> x ]

RECURSIVE EntriesOf(_, _, _)
EntriesOf(root, sorted, qty_map) ==
    IF sorted = << >>
    THEN << >>
    ELSE LET f == Head(sorted)
         IN  (IF IsImage(f) THEN Copies(PathJoin(root, f), ResolveQty(qty_map, f)) ELSE << >>)
             \o EntriesOf(root, Tail(sorted), qty_map)

\* Lines 37-38: the directory is passed over.
Skipped(folder, include_subfolders, root) == ~include_subfolders /\ root # folder

\* Lines 39-50 for one directory that is not passed over.
LevelEntries(root, files, contents) ==
    EntriesOf(root, SortedFiles(files), QtyMapOf(root, files, contents).qty_map)

\* The loop of line 36 over the directories os.walk yields.
RECURSIVE WalkEntries(_, _, _, _)
WalkEntries(folder, include_subfolders, walk, contents) ==
    IF walk = << >>
    THEN << >>
    ELSE LET level == Head(walk)
         IN  (IF Skipped(folder, include_subfolders, level.root)
              THEN << >>
              ELSE LevelEntries(level.root, level.files, contents))
             \o WalkEntries(folder, include_subfolders, Tail(walk), contents)

collect_images(folder, include_subfolders, walk, contents) ==
    WalkEntries(folder, include_subfolders, walk, contents)

\* What parse_quantity_file returned for each directory of the walk (the
\* empty map, no warning, for a directory passed over or without quantity file).
QtyMapsOf(folder, include_subfolders, walk, contents) ==
    [ i \in 1..Len(walk) |->
        IF Skipped(folder, include_subfolders, walk[i].root)
        THEN [ qty_map |-> EmptyMap, warned |-> FALSE ]
        ELSE QtyMapOf(walk[i].root, walk[i].files, contents) ]

(***************************************************************************)
(* Grid geometry (points; inch = 72, letter = 612 x 792).                  *)
(***************************************************************************)
CARD_WIDTH == 180

CARD_HEIGHT == 252

PAGE_WIDTH == 612

PAGE_HEIGHT == 792

CARDS_PER_ROW == PAGE_WIDTH \div CARD_WIDTH

CARDS_PER_COL == PAGE_HEIGHT \div CARD_HEIGHT

AdvanceCursorLateWrap(x_idx, y_idx) ==
    IF x_idx + 1 > CARDS_PER_ROW
    THEN IF y_idx + 1 >= CARDS_PER_COL
         THEN [ x |-> 0, y |-> 0, showPage |-> TRUE ]
         ELSE [ x |-> 0, y |-> y_idx + 1, showPage |-> FALSE ]
    ELSE [ x |-> x_idx + 1, y |-> y_idx, showPage |-> FALSE ]

\* Lines 79-85: the cursor after one card, and whether c.showPage() is called.
AdvanceCursor(x_idx, y_idx) ==
    IF x_idx + 1 >= CARDS_PER_ROW
    THEN IF y_idx + 1 >= CARDS_PER_COL
         THEN [ x |-> 0, y |-> 0, showPage |-> TRUE ]
         ELSE [ x |-> 0, y |-> y_idx + 1, showPage |-> FALSE ]
    ELSE [ x |-> x_idx + 1, y |-> y_idx, showPage |-> FALSE ]

\* Line 76: temp files are removed only when part_index is set.
DeletesTemp(part_index) == part_index # NoneInt

\* cards[a:b] for 0 <= a <= b
PySlice(s, a, b) == SubSeq(s, a + 1, IF b < Len(s) THEN b ELSE Len(s))

PartSliceOverlap(cards, cards_per_part, part_index) ==
    PySlice(cards, part_index * cards_per_part, (part_index + 1) * cards_per_part + 1)

\* Line 59
PartSlice(cards, cards_per_part, part_index) ==
    PySlice(cards, part_index * cards_per_part, (part_index + 1) * cards_per_part)

\* Line 60
PartPath(output_path, part_index) ==
    Replace(output_path,
            << ".", "p", "d", "f" >>,
            << "-", "p", "a", "r", "t" >> \o Str(part_index + 1) \o << ".", "p", "d", "f" >>)

(***************************************************************************)
(* Size arithmetic of lines 116 and 125-127.  avg_card_size = size / n is  *)
(* an IEEE double, so floor(cap / avg) is taken of the rounded quotient.   *)
(***************************************************************************)
BytesPerMB == 1048576

DoubleMantissaBits == 53

RECURSIVE BitLength(_)
BitLength(q) == IF q = 0 THEN 0 ELSE 1 + BitLength(q \div 2)

\* k further binary digits of r/n: the remainder left and the last digit.
RECURSIVE FracWalk(_, _, _, _)
FracWalk(r, n, k, lsb) ==
    IF k = 0
    THEN [ r |-> r, lsb |-> lsb ]
    ELSE FracWalk((2 * r) % n, n, k - 1, (2 * r) \div n)

\* The remainder after the leading 1 digit of r/n, for 0 < r < n.
RECURSIVE AfterLeadingOne(_, _)
AfterLeadingOne(r, n) ==
    IF (2 * r) \div n = 1 THEN (2 * r) % n ELSE AfterLeadingOne((2 * r) % n, n)

\* Sign of (double(size / n) - size / n) under round-to-nearest-even.
RoundDir(size, n) ==
    LET q == size \div n
        w == IF q >= 1
             THEN FracWalk(size % n, n, DoubleMantissaBits - BitLength(q), q % 2)
             ELSE IF size = 0
                  THEN [ r |-> 0, lsb |-> 0 ]
                  ELSE FracWalk(AfterLeadingOne(size, n), n, DoubleMantissaBits - 1, 1)
        guard == (2 * w.r) \div n
        rest == (2 * w.r) % n
    IN  IF w.r = 0
        THEN 0
        ELSE IF guard = 1 /\ (rest # 0 \/ w.lsb = 1) THEN 1 ELSE 0 - 1

\* Line 126: int(cap_bytes // avg_card_size) with avg_card_size = size / n.
\* The quotient cap_bytes * n / size is an integer exactly when size divides
\* cap_bytes * n; then a quotient rounded up in line 125 loses one card.
CardsPerPart(cap_bytes, size, n) ==
    LET k == (cap_bytes * n) \div size
    IN  IF (cap_bytes * n) % size = 0 /\ RoundDir(size, n) = 1 THEN k - 1 ELSE k

\* Line 127 (cards_per_part # 0)
TotalParts(n, cards_per_part) == (n + cards_per_part - 1) \div cards_per_part

(***************************************************************************)
(* Temp artifacts (line 105).  uuid4() is random: a call returns a value   *)
(* no earlier call of the run returned, or the value of an earlier call.   *)
(* The program only concatenates and compares the values, so the value of  *)
(* a call that repeats no earlier one is represented by the call's number. *)
(***************************************************************************)
UuidHexDigits == 6

RECURSIVE HexPadded(_, _)
HexPadded(k, width) ==
    IF width = 0
    THEN << >>
    ELSE HexPadded(k \div 16, width - 1) \o << HexChars[(k % 16) + 1] >>

\* Calls up to this number may return the value of any earlier call.
MaxRepeatCall == 2

\* uuid.uuid4().hex[:6]: the outcomes of the next call, `returned` being the
\* values of the calls so far.
Uuid6(returned) ==
    { HexPadded(Len(returned) + 1, UuidHexDigits) }
    \cup (IF Len(returned) + 1 <= MaxRepeatCall THEN Range(returned) ELSE {})

\* img_path + f"_{uuid.uuid4().hex[:6]}_temp.png"
TempPath(img_path, hex6) ==
    img_path \o << "_" >> \o hex6 \o << "_", "t", "e", "m", "p", ".", "p", "n", "g" >>

(***************************************************************************)
(* The default output name (lines 155-159), with os.path.relpath.          *)
(***************************************************************************)
RECURSIVE JoinWith(_, _)
JoinWith(parts, sep) ==
    IF parts = << >>
    THEN << >>
    ELSE IF Len(parts) = 1
         THEN parts[1]
         ELSE parts[1] \o sep \o JoinWith(Tail(parts), sep)

NotDotPart(p) == p \notin { << "." >>, << ".", "." >> }

NonEmpty(p) == p # << >>

\* [x for x in path.split(sep) if x]
Components(path) == SelectSeq(Split(path, "/"), NonEmpty)

\* os.path.normpath on the components of an absolute path: '.' is dropped,
\* '..' drops the component before it (nothing at the root).
RECURSIVE NormAbs(_, _)
NormAbs(comps, acc) ==
    IF comps = << >>
    THEN acc
    ELSE LET c == Head(comps)
         IN  NormAbs(Tail(comps),
                     IF c = << "." >>
                     THEN acc
                     ELSE IF c = << ".", "." >>
                          THEN SubSeq(acc, 1, Len(acc) - 1)
                          ELSE Append(acc, c))

\* The components of os.path.abspath(path) in the working directory cwd.
AbsComponents(path, cwd) ==
    NormAbs(IF StartsWith(path, << "/" >>)
            THEN Components(path)
            ELSE Components(cwd) \o Components(path),
            << >>)

\* len(os.path.commonprefix([a, b])) on lists of components
CommonPrefixLen(a, b) ==
    LET n == IF Len(a) < Len(b) THEN Len(a) ELSE Len(b)
        same == { k \in 0..n : \A j \in 1..k : a[j] = b[j] }
    IN  CHOOSE k \in same : \A j \in same : j <= k

\* os.path.relpath(path) in the working directory cwd (path not empty)
RelPath(path, cwd) ==
    LET start_list == AbsComponents(cwd, cwd)
        path_list == AbsComponents(path, cwd)
        i == CommonPrefixLen(start_list, path_list)
        rel_list == [ k \in 1..(Len(start_list) - i) |-> << ".", "." >> ]
                    \o SubSeq(path_list, i + 1, Len(path_list))
    IN  IF rel_list = << >> THEN << "." >> ELSE JoinWith(rel_list, << "/" >>)

\* Lines 156-159
DefaultOutput(folder, cwd) ==
    LET rel_path == RelPath(folder, cwd)
        parts == SelectSeq(Split(rel_path, "/"), NotDotPart)
        sanitized == JoinWith([ i \in 1..Len(parts) |-> Replace(parts[i], << " " >>, << >>) ],
                              << "-" >>)
    IN  sanitized \o << ".", "p", "d", "f" >>

(***************************************************************************)
(* os.walk on a file system given as the set d of the paths of its files.  *)
(***************************************************************************)
\* The orders in which a set can be enumerated.
RECURSIVE Enumerations(_)
Enumerations(S) ==
    IF S = {}
    THEN { << >> }
    ELSE UNION { { << x >> \o e : e \in Enumerations(S \ { x }) } : x \in S }

\* The paths of d below the directory root, without the leading root + '/'.
Below(root, d) ==
    LET prefix == PathJoin(root, << >>)
    IN  { SubSeq(x, Len(prefix) + 1, Len(x)) : x \in { y \in d : StartsWith(y, prefix) } }

\* The names of the files directly in root.
ListedNames(root, d) == { r \in Below(root, d) : "/" \notin Range(r) }

\* The names of the directories directly in root.
ListedDirs(root, d) ==
    { Split(r, "/")[1] : r \in { q \in Below(root, d) : "/" \in Range(q) } }

RECURSIVE ConcatWalks(_, _)
ConcatWalks(dirs, sub) ==
    IF dirs = << >> THEN << >> ELSE sub[Head(dirs)] \o ConcatWalks(Tail(dirs), sub)

\* What os.walk(root) can yield on d: root with its file names in any
\* enumeration order, then the walk of each of its directories, the
\* directories in any enumeration order.
RECURSIVE Walks(_, _)
Walks(root, d) ==
    LET dirs == ListedDirs(root, d)
        Sub(x) == Walks(PathJoin(root, x), d)
        subs == { f \in [ dirs -> UNION { Sub(x) : x \in dirs } ] :
                    \A x \in dirs : f[x] \in Sub(x) }
    IN  { << [ root |-> root, files |-> files ] >> \o ConcatWalks(order, sub) :
            files \in Enumerations(ListedNames(root, d)),
            order \in Enumerations(dirs),
            sub \in subs }


(***************************************************************************)
(* State.  One run of main(): the folder on disk, the command line, the    *)
(* locals of main / generate_pdf_with_size_limit / save_pdf, the position  *)
(* in the code (pc), and a record of what the run drew, wrote and removed. *)
(***************************************************************************)
VARIABLES
    pc,             \* position in the code
    disk,           \* paths of the files that exist
    contents,       \* quantity file name -> [readable, lines]
    walk,           \* what os.walk(folder) yields: directories with their file names
    args_output,    \* --output, or None
    no_subfolders,  \* --no-subfolders
    max_size_mb,    \* --max-size-mb, or None
    image_paths,    \* main: result of collect_images
    qty_map,        \* collect_images: qty_map of each directory of the walk
    warned,         \* per directory: parse_quantity_file printed its warning
    output_path,    \* generate_pdf_with_size_limit: output_path
    all_cards,      \* generate_pdf_with_size_limit: temp paths, one per card
    uuids,          \* the values uuid4().hex[:6] returned so far
    size,           \* generate_pdf_with_size_limit: size (line 115)
    cards_per_part, \* line 126
    total_parts,    \* line 127
    part_i,         \* loop variable i of line 131
    cards,          \* save_pdf: cards (after the slice of line 59)
    sp_output_path, \* save_pdf: output_path (after line 60)
    part_index,     \* save_pdf: part_index
    x_idx,          \* save_pdf: x_idx
    y_idx,          \* save_pdf: y_idx
    pos,            \* save_pdf: number of cards of `cards` already handled
    page,           \* save_pdf: number of showPage() calls so far
    drawn,          \* drawImage calls of the current save_pdf call
    written,        \* paths opened for writing at line 91, in order
    parts,          \* per finished part call, the paths it drew
    removed,        \* paths passed to os.remove, in order
    error           \* the exception that ended the run, or NoError

vars == << pc, disk, contents, walk, args_output, no_subfolders, max_size_mb, image_paths,
           qty_map, warned, output_path, all_cards, uuids, size, cards_per_part,
           total_parts, part_i, cards, sp_output_path, part_index, x_idx, y_idx, pos,
           page, drawn, written, parts, removed, error >>

collectVars == << image_paths, qty_map, warned, output_path >>

planVars == << size, cards_per_part, total_parts, part_i >>

frameVars == << cards, sp_output_path, part_index, x_idx, y_idx, pos, page, drawn >>

inputVars == << contents, walk, args_output, no_subfolders, max_size_mb >>

(***************************************************************************)
(* Bounds and input sets.                                                  *)
(***************************************************************************)
MaxCopies == 19

MaxCapMB == 2

MaxSizeHalfMB == 8

MaxFiles == 3

MaxTreeFiles == 2

MaxLines == 2

MaxQty == 2

Folder == << "d" >>

\* A directory of Folder, and a second one.
SubFolder == << "d", "/", "s" >>

OtherFolder == << "d", "/", "t" >>

\* os.getcwd()
Cwd == << "/", "w" >>

OutPdf == << "o", ".", "p", "d", "f" >>

OutNoExt == << "o" >>

\* a-x<N>.png
ImgA(N) == << "a", "-", "x" >> \o Str(N) \o << ".", "p", "n", "g" >>

ImgB == << "B", ".", "P", "N", "G" >>

QuantitiesTxt == << "q", "u", "a", "n", "t", "i", "t", "i", "e", "s", ".", "t", "x", "t" >>

LineB2 == << "B", ",", "2" >>

\* Files next to a-x<N>.png in the folder of a run of Spec.
RunExtras == { << >>, << QuantitiesTxt, ImgB >> }

\* The directories below the folder of a run of Spec: none, or d/s with B.PNG.
RunSubfolders == { << >>, << [ root |-> SubFolder, files |-> << ImgB >> ] >> }

\* The paths of the files of a walk, and those of its quantity files.
PathsOf(w) == UNION { { PathJoin(w[i].root, f) : f \in Range(w[i].files) } : i \in DOMAIN w }

QuantityPathsOf(w) ==
    UNION { { PathJoin(w[i].root, f) : f \in { x \in Range(w[i].files) : IsQuantityFile(x) } } :
              i \in DOMAIN w }

\* Measured sizes of the full deck in bytes: around half megabytes.
SizeChoices == { q * (BytesPerMB \div 2) + d : q \in 1..MaxSizeHalfMB, d \in { 0, 1 } }

NameLowerA == << "a", ".", "p", "n", "g" >>

NameUpperA == << "A", ".", "P", "N", "G" >>

NameNote == << "n", ".", "t", "x", "t" >>

CardsTxt == << "C", "a", "r", "d", "s", ".", "t", "x", "t" >>

\* File names of the folders of SpecCollect.
CollectNames ==
    { NameLowerA, NameUpperA, NameNote, CardsTxt, QuantitiesTxt, ImgA(0), ImgA(MaxQty) }

\* name,qty
LineFor(name, q) == name \o << "," >> \o Str(q)

\* Lines of the quantity file next to a-x<N>.png in SpecCollect: entries for
\* the base names a and a-x<N>, an entry written with blanks, a line without
\* comma, a line with two commas and a line whose quantity is no integer.
CollectLines(N) ==
    { LineFor(<< "a" >>, q) : q \in 1..MaxQty }
    \cup { LineFor(<< "a", "-", "x" >> \o Str(N), q) : q \in 1..MaxQty }
    \cup { << " ", "A", " ", ",", " ", "2", " " >>,
           << "n", "o", "c", "o", "m", "m", "a" >>,
           << "a", ",", "b", ",", "3" >>,
           << "a", ",", "x" >> }

\* Sequences without repetition of at most n elements of S.
RECURSIVE Arrangements(_, _)
Arrangements(S, n) ==
    IF n = 0
    THEN { << >> }
    ELSE LET shorter == Arrangements(S, n - 1)
         IN  shorter \cup { Append(a, x) : a \in { b \in shorter : Len(b) = n - 1 },
                                           x \in S }

NoRepeat(s) == \A i, j \in 1..Len(s) : s[i] = s[j] => i = j

RECURSIVE SeqsUpTo(_, _)
SeqsUpTo(S, n) ==
    IF n = 0
    THEN { << >> }
    ELSE LET shorter == SeqsUpTo(S, n - 1)
         IN  shorter \cup { Append(a, x) : a \in { b \in shorter : Len(b) = n - 1 },
                                           x \in S }

InitRun ==
    /\ pc = "main"
    /\ image_paths = << >>
    /\ qty_map = << >>
    /\ warned = << >>
    /\ output_path = NonePath
    /\ all_cards = << >>
    /\ uuids = << >>
    /\ size = NoneInt
    /\ cards_per_part = NoneInt
    /\ total_parts = NoneInt
    /\ part_i = 0
    /\ cards = << >>
    /\ sp_output_path = NonePath
    /\ part_index = NoneInt
    /\ x_idx = 0
    /\ y_idx = 0
    /\ pos = 0
    /\ page = 0
    /\ drawn = << >>
    /\ written = << >>
    /\ parts = << >>
    /\ removed = << >>
    /\ error = NoError

\* A folder with a-x<N>.png and possibly B.PNG and a quantity file, possibly
\* with a directory d/s, and the command line of the run.
Init ==
    /\ InitRun
    /\ \E N \in 0..MaxCopies, extra \in RunExtras, sub \in RunSubfolders :
          walk = << [ root |-> Folder, files |-> << ImgA(N) >> \o extra ] >> \o sub
    /\ contents = [ q \in QuantityPathsOf(walk) |->
                      [ readable |-> TRUE, lines |-> << LineB2 >> ] ]
    /\ disk = PathsOf(walk)
    /\ args_output \in { NonePath, OutPdf, OutNoExt }
    /\ no_subfolders \in BOOLEAN
    /\ max_size_mb \in { NoneInt } \cup (0..MaxCapMB)

\* What open() finds in the quantity file next to a-x<N>.png: nothing
\* readable, or at most MaxLines lines.
QuantityFiles(N) ==
    { [ readable |-> FALSE, lines |-> << >> ] }
    \cup { [ readable |-> TRUE, lines |-> l ] : l \in SeqsUpTo(CollectLines(N), MaxLines) }

\* File names of the directories of the trees of SpecCollect.
TreeNames == { NameLowerA, ImgA(1), CardsTxt }

\* Cards.txt of the folder maps a to 2, Cards.txt of a directory below it
\* maps a-x1 to 2.
TreeContents(w) ==
    [ q \in QuantityPathsOf(w) |->
        [ readable |-> TRUE,
          lines |-> IF q = PathJoin(Folder, CardsTxt)
                    THEN << LineFor(<< "a" >>, 2) >>
                    ELSE << LineFor(<< "a", "-", "x", "1" >>, 2) >> ] ]

\* The folders of SpecCollect.  One directory: any at most MaxFiles files in
\* any enumeration order, every quantity file holding the line a,2; or
\* a-x<N>.png, a.png and Cards.txt with any quantity file.  A tree: the folder
\* and d/s, each with at most MaxTreeFiles files in any enumeration order,
\* possibly with d/t before or after d/s, with and without --no-subfolders.
InitCollect ==
    /\ InitRun
    /\ \/ /\ \E a \in { b \in Arrangements(CollectNames, MaxFiles) : NoRepeat(b) } :
                walk = << [ root |-> Folder, files |-> a ] >>
          /\ contents = [ q \in QuantityPathsOf(walk) |->
                            [ readable |-> TRUE, lines |-> << LineFor(<< "a" >>, 2) >> ] ]
          /\ no_subfolders = FALSE
       \/ /\ \E N \in 0..MaxQty :
                /\ walk = << [ root |-> Folder, files |-> << ImgA(N), CardsTxt, NameLowerA >> ] >>
                /\ contents \in [ { PathJoin(Folder, CardsTxt) } -> QuantityFiles(N) ]
          /\ no_subfolders = FALSE
       \/ /\ \E r, x \in { b \in Arrangements(TreeNames, MaxTreeFiles) : NoRepeat(b) } :
                LET top == [ root |-> Folder, files |-> r ]
                    s == [ root |-> SubFolder, files |-> x ]
                    t == [ root |-> OtherFolder, files |-> << NameLowerA >> ]
                IN  walk \in { << top, s >>, << top, s, t >>, << top, t, s >> }
          /\ contents = TreeContents(walk)
          /\ no_subfolders \in BOOLEAN
    /\ disk = PathsOf(walk)
    /\ args_output = NonePath
    /\ max_size_mb = NoneInt

(***************************************************************************)
(* Actions.                                                                *)
(***************************************************************************)
\* `if not max_size_mb` (line 109) is false
Capped == max_size_mb \notin { NoneInt, 0 }

CapBytes == max_size_mb * BytesPerMB

\* main, lines 147-159: collect the images, stop when there is none, else
\* settle the output path.
Collect ==
    /\ pc = "main"
    /\ LET maps == QtyMapsOf(Folder, ~no_subfolders, walk, contents)
           paths == collect_images(Folder, ~no_subfolders, walk, contents)
       IN  /\ image_paths' = paths
           /\ qty_map' = [ i \in DOMAIN maps |-> maps[i].qty_map ]
           /\ warned' = [ i \in DOMAIN maps |-> maps[i].warned ]
           /\ IF paths = << >>
              THEN /\ pc' = "no_images"
                   /\ output_path' = output_path
              ELSE /\ pc' = "normalize"
                   /\ output_path' = IF args_output = NonePath
                                     THEN DefaultOutput(Folder, Cwd)
                                     ELSE args_output
    /\ UNCHANGED << disk, inputVars, all_cards, uuids, planVars, frameVars,
                    written, parts, removed, error >>

\* Lines 98-107, one iteration: the normalized image is saved to the temp
\* path, which becomes the card.
Normalize ==
    /\ pc = "normalize"
    /\ Len(all_cards) < Len(image_paths)
    /\ \E hex6 \in Uuid6(uuids) :
          LET temp_path == TempPath(image_paths[Len(all_cards) + 1], hex6)
          IN  /\ all_cards' = Append(all_cards, temp_path)
              /\ disk' = disk \cup { temp_path }
              /\ uuids' = Append(uuids, hex6)
    /\ UNCHANGED << pc, inputVars, collectVars, planVars, frameVars,
                    written, parts, removed, error >>

\* Lines 57-68: entry of save_pdf(c, out, cards_per_part=cpp, part_index=pi).
EnterSavePdf(c, out, cpp, pi) ==
    /\ IF cpp \notin { NoneInt, 0 }
       THEN /\ cards' = PartSlice(c, cpp, pi)
            /\ sp_output_path' = PartPath(out, pi)
       ELSE /\ cards' = c
            /\ sp_output_path' = out
    /\ part_index' = pi
    /\ x_idx' = 0
    /\ y_idx' = 0
    /\ pos' = 0
    /\ page' = 0
    /\ drawn' = << >>
    /\ pc' = "draw"

\* Line 110 or line 115: the full deck is rendered by save_pdf(all_cards, output_path).
BeginFull ==
    /\ pc = "normalize"
    /\ Len(all_cards) = Len(image_paths)
    /\ EnterSavePdf(all_cards, output_path, NoneInt, NoneInt)
    /\ UNCHANGED << disk, inputVars, collectVars, all_cards, uuids, planVars,
                    written, parts, removed, error >>

\* Lines 70-85, one iteration: drawImage is called with the card; when
\* part_index is set os.remove is called with it, which raises at line 77
\* when the file is gone; else the cursor moves.
DrawCard ==
    /\ pc = "draw"
    /\ pos < Len(cards)
    /\ LET img == cards[pos + 1]
           next == AdvanceCursor(x_idx, y_idx)
       IN  /\ drawn' = Append(drawn, [ path |-> img, page |-> page,
                                       row |-> y_idx, col |-> x_idx ])
           /\ IF DeletesTemp(part_index) /\ img \notin disk
              THEN /\ pc' = "failed"
                   /\ error' = "FileNotFoundError"
                   /\ UNCHANGED << disk, removed, x_idx, y_idx, page, pos >>
              ELSE /\ IF DeletesTemp(part_index)
                      THEN /\ disk' = disk \ { img }
                           /\ removed' = Append(removed, img)
                      ELSE UNCHANGED << disk, removed >>
                   /\ x_idx' = next.x
                   /\ y_idx' = next.y
                   /\ page' = IF next.showPage THEN page + 1 ELSE page
                   /\ pos' = pos + 1
                   /\ UNCHANGED << pc, error >>
    /\ UNCHANGED << inputVars, collectVars, all_cards, uuids, planVars,
                    cards, sp_output_path, part_index, written, parts >>

\* Lines 87-94: the PDF is written to the output path of this call and its
\* length returned; line 115 keeps it in size, the other callers drop it.
FinishPdf ==
    /\ pc = "draw"
    /\ pos = Len(cards)
    /\ written' = Append(written, sp_output_path)
    /\ disk' = disk \cup { sp_output_path }
    /\ IF part_index = NoneInt /\ Capped
       THEN size' \in SizeChoices
       ELSE size' = size
    /\ parts' = IF part_index = NoneInt
                THEN parts
                ELSE Append(parts, [ k \in 1..Len(drawn) |-> drawn[k].path ])
    /\ pc' = "returned"
    /\ UNCHANGED << inputVars, collectVars, all_cards, uuids, cards_per_part,
                    total_parts, part_i, frameVars, removed, error >>

\* Lines 109-112: no size cap, the run ends after the single write.
NoCapReturn ==
    /\ pc = "returned"
    /\ part_index = NoneInt
    /\ ~Capped
    /\ pc' = "done"
    /\ UNCHANGED << disk, inputVars, collectVars, all_cards, uuids, planVars,
                    frameVars, written, parts, removed, error >>

\* Lines 119-121: the paths os.remove is called with, d being the paths of
\* the files that exist.
RECURSIVE CleanupRemoved(_, _)
CleanupRemoved(imgs, d) ==
    IF imgs = << >>
    THEN << >>
    ELSE IF Head(imgs) \in d
         THEN << Head(imgs) >> \o CleanupRemoved(Tail(imgs), d \ { Head(imgs) })
         ELSE CleanupRemoved(Tail(imgs), d)

\* Lines 116-122: the full file fits; the temp files that exist are removed.
Accepted ==
    /\ pc = "returned"
    /\ part_index = NoneInt
    /\ Capped
    /\ size <= CapBytes
    /\ removed' = removed \o CleanupRemoved(all_cards, disk)
    /\ disk' = disk \ Range(all_cards)
    /\ pc' = "done"
    /\ UNCHANGED << inputVars, collectVars, all_cards, uuids, planVars,
                    frameVars, written, parts, error >>

\* Lines 124-127: the split plan; line 127 divides by cards_per_part.
PlanSplit ==
    /\ pc = "returned"
    /\ part_index = NoneInt
    /\ Capped
    /\ size > CapBytes
    /\ LET cpp == CardsPerPart(CapBytes, size, Len(all_cards))
       IN  /\ cards_per_part' = cpp
           /\ IF cpp = 0
              THEN /\ pc' = "failed"
                   /\ error' = "ZeroDivisionError"
                   /\ total_parts' = total_parts
              ELSE /\ pc' = "parts"
                   /\ error' = error
                   /\ total_parts' = TotalParts(Len(all_cards), cpp)
    /\ part_i' = 0
    /\ UNCHANGED << disk, inputVars, collectVars, all_cards, uuids, size,
                    frameVars, written, parts, removed >>

\* Lines 131-132: save_pdf(all_cards, output_path, cards_per_part, part_index=i).
BeginPart ==
    /\ pc = "parts"
    /\ part_i < total_parts
    /\ EnterSavePdf(all_cards, output_path, cards_per_part, part_i)
    /\ UNCHANGED << disk, inputVars, collectVars, all_cards, uuids, planVars,
                    written, parts, removed, error >>

\* Line 131: the part call returned, next i.
PartReturned ==
    /\ pc = "returned"
    /\ part_index # NoneInt
    /\ part_i' = part_i + 1
    /\ pc' = "parts"
    /\ UNCHANGED << disk, inputVars, collectVars, all_cards, uuids, size,
                    cards_per_part, total_parts, frameVars, written, parts, removed,
                    error >>

\* Line 134: all parts are written.
SplitDone ==
    /\ pc = "parts"
    /\ part_i = total_parts
    /\ pc' = "done"
    /\ UNCHANGED << disk, inputVars, collectVars, all_cards, uuids, planVars,
                    frameVars, written, parts, removed, error >>

Next ==
    \/ Collect
    \/ Normalize
    \/ BeginFull
    \/ DrawCard
    \/ FinishPdf
    \/ NoCapReturn
    \/ Accepted
    \/ PlanSplit
    \/ BeginPart
    \/ PartReturned
    \/ SplitDone

Spec == Init /\ [][Next]_vars

\* collect_images alone, on every folder of InitCollect.
SpecCollect == InitCollect /\ [][Collect]_vars


(***************************************************************************)
(* Definitions the properties share.                                       *)
(***************************************************************************)
Count(seq, x) == Cardinality({ i \in DOMAIN seq : seq[i] = x })

RECURSIVE Flatten(_)
Flatten(ss) == IF ss = << >> THEN << >> ELSE Head(ss) \o Flatten(Tail(ss))

PageCapacity == CARDS_PER_ROW * CARDS_PER_COL

\* The run took the split branch and planned its parts.
SplitPlanned == total_parts # NoneInt

\* Temp artifacts of this run that exist.
TempOnDisk == Range(all_cards) \cap disk

(***************************************************************************)
(* C2.  When the deck is split, the card sequences the part calls draw are *)
(* consecutive slices of all_cards: no part is empty, every part but the   *)
(* last has exactly cards_per_part cards, part k is the slice of all_cards *)
(* that starts right after the first k-1 parts (so no position of the deck *)
(* is in two parts), the parts drawn so far are a prefix of all_cards, and *)
(* once the run is done there are total_parts parts whose concatenation is *)
(* all_cards.                                                              *)
(***************************************************************************)
C2_PartsPartitionDeck ==
    LET flat == Flatten(parts)
    IN  /\ \A k \in 1..Len(parts) :
              /\ parts[k] # << >>
              /\ Len(parts[k]) <= cards_per_part
              /\ k < total_parts => Len(parts[k]) = cards_per_part
              /\ parts[k] = SubSeq(all_cards, (k - 1) * cards_per_part + 1,
                                   (k - 1) * cards_per_part + Len(parts[k]))
        /\ Len(flat) <= Len(all_cards)
        /\ flat = SubSeq(all_cards, 1, Len(flat))
        /\ (pc = "done" /\ SplitPlanned) => (Len(parts) = total_parts /\ flat = all_cards)

\* A finished split into several parts whose last part is shorter.
C2_Witness ==
    /\ pc = "done"
    /\ Len(parts) >= 3
    /\ Len(parts[Len(parts)]) < cards_per_part

(***************************************************************************)
(* C3.  A run that ends in done leaves none of its temp artifacts on disk. *)
(***************************************************************************)
C3_NoTempAtDone == pc = "done" => TempOnDisk = {}

(***************************************************************************)
(* C4.  A run that split wrote exactly total_parts files, at pairwise      *)
(* distinct paths, part k at the output path with -part<k> before .pdf,    *)
(* and wrote nothing at the output path itself.                            *)
(***************************************************************************)
C4_SplitWritesOnlyParts ==
    (pc = "done" /\ SplitPlanned) =>
        /\ Len(written) = total_parts
        /\ NoRepeat(written)
        /\ output_path \notin Range(written)
        /\ output_path \notin disk
        /\ \A k \in 1..Len(written) :
              EndsWith(output_path, << ".", "p", "d", "f" >>) =>
                  written[k] = SubSeq(output_path, 1, Len(output_path) - 4)
                               \o << "-", "p", "a", "r", "t" >> \o Str(k)
                               \o << ".", "p", "d", "f" >>

(***************************************************************************)
(* C5.  In every save_pdf call the i-th card drawn (i from 0) is on page   *)
(* i div (R*C), in row (i mod (R*C)) div C and column (i mod (R*C)) mod C, *)
(* and the cursor stands at the cell of the next card.                     *)
(***************************************************************************)
C5_GridPlacement ==
    /\ \A k \in 1..Len(drawn) :
          LET i == k - 1
          IN  /\ drawn[k].page = i \div PageCapacity
              /\ drawn[k].row = (i % PageCapacity) \div CARDS_PER_ROW
              /\ drawn[k].col = (i % PageCapacity) % CARDS_PER_ROW
    /\ pc = "draw" =>
          /\ Len(drawn) = pos
          /\ page = pos \div PageCapacity
          /\ y_idx = (pos % PageCapacity) \div CARDS_PER_ROW
          /\ x_idx = (pos % PageCapacity) % CARDS_PER_ROW

\* A part pass that has drawn onto its second page.
C5_Witness ==
    /\ pc = "draw"
    /\ part_index # NoneInt
    /\ Len(drawn) > PageCapacity
    /\ drawn[Len(drawn)].page = 1

(***************************************************************************)
(* C7.  A run with at least one card, a cap of at least 1 MB and a         *)
(* measured size above the cap, once it has computed cards_per_part, has   *)
(* total_parts = ceil(card count / cards_per_part) parts to write and is   *)
(* not ended by an exception.                                              *)
(***************************************************************************)
C7_SplitReachesDone ==
    (/\ max_size_mb >= 1
     /\ Len(all_cards) >= 1
     /\ size # NoneInt
     /\ size > CapBytes
     /\ cards_per_part # NoneInt) =>
        /\ error = NoError
        /\ cards_per_part >= 1
        /\ total_parts * cards_per_part >= Len(all_cards)
        /\ (total_parts - 1) * cards_per_part < Len(all_cards)

(***************************************************************************)
(* C9.  Temp-artifact lifecycle.  The measuring pass removes nothing; a    *)
(* removal in a draw loop happens in a part pass, removes the card drawn   *)
(* in that same step, which existed and had not been removed before; every *)
(* card drawn exists when it is drawn, so no pass ends in an exception on  *)
(* a removed file; the cleanup of the accepted branch removes only         *)
(* existing files, each once; and after a split every temp artifact has    *)
(* been removed exactly once.                                              *)
(***************************************************************************)
C9_Step ==
    /\ (pc = "draw" /\ part_index = NoneInt) =>
          /\ removed' = removed
          /\ Range(all_cards) \cap disk' = Range(all_cards) \cap disk
    /\ (pc = "draw" /\ removed' # removed) =>
          /\ part_index # NoneInt
          /\ pos < Len(cards)
          /\ removed' = Append(removed, cards[pos + 1])
          /\ cards[pos + 1] \in disk
          /\ cards[pos + 1] \notin disk'
          /\ cards[pos + 1] \notin Range(removed)
          /\ Len(drawn') = Len(drawn) + 1
          /\ drawn'[Len(drawn')].path = cards[pos + 1]
    /\ (pc = "draw" /\ Len(drawn') > Len(drawn)) =>
          /\ drawn'[Len(drawn')].path \in disk
          /\ drawn'[Len(drawn')].path \notin Range(removed)
    /\ (pc # "draw" /\ removed' # removed) =>
          /\ Len(removed') > Len(removed)
          /\ SubSeq(removed', 1, Len(removed)) = removed
          /\ NoRepeat(removed')
          /\ \A k \in (Len(removed) + 1)..Len(removed') : removed'[k] \in disk

C9_State ==
    /\ error # "FileNotFoundError"
    /\ NoRepeat(removed)
    /\ Range(removed) \cap disk = {}
    /\ (pc = "done" /\ SplitPlanned) =>
          (Range(removed) = Range(all_cards) /\ Len(removed) = Len(all_cards))

C9_TempLifecycle == [](C9_State) /\ [][C9_Step]_vars

(***************************************************************************)
(* C10.  After a run that ended in done, collect_images on the folder      *)
(* returns the deck it returned before the run, in whatever order os.walk  *)
(* enumerates the files then (for runs after which at most MaxListed files *)
(* exist).                                                                 *)
(***************************************************************************)
MaxListed == 4

C10_DeckUnchangedByRun ==
    (pc = "done" /\ Cardinality(disk) <= MaxListed) =>
        \A w \in Walks(Folder, disk) :
            collect_images(Folder, ~no_subfolders, w, contents) = image_paths


(***************************************************************************)
(* Properties of collect_images, checked under SpecCollect.                *)
(***************************************************************************)
\* The directories of the walk (by position).
Levels == DOMAIN walk

\* The directory's files are considered: subfolder inclusion is on, or it is
\* the folder itself.
Considered(i) == no_subfolders => walk[i].root = Folder

\* The entry of file f of directory i, and its copies among the entries.
EntryPath(i, f) == PathJoin(walk[i].root, f)

CopiesOf(i, f) == Count(image_paths, EntryPath(i, f))

\* Directory and file name of every file of the walk.
Origins == UNION { { << i, f >> : f \in Range(walk[i].files) } : i \in Levels }

\* Directory and file name of an entry of image_paths.
Origin(path) == CHOOSE o \in Origins : EntryPath(o[1], o[2]) = path

\* a-x<N>, the base name of a-x<N>.png
BaseA(N) == << "a", "-", "x" >> \o Str(N)

\* The text of a file name from its last dot on (its extension).
Extension(f) ==
    LET dots == { i \in 1..Len(f) : f[i] = "." }
    IN  IF dots = {}
        THEN << >>
        ELSE SubSeq(f, CHOOSE i \in dots : \A j \in dots : j <= i, Len(f))

\* A supported image file: extension .jpg, .jpeg or .png in any letter case.
SupportedImage(f) ==
    Lower(Extension(f)) \in { << ".", "j", "p", "g" >>,
                               << ".", "j", "p", "e", "g" >>,
                               << ".", "p", "n", "g" >> }

\* Sum of the resolved quantities of the supported image files among files,
\* under the quantity map map.
RECURSIVE SumQuantities(_, _)
SumQuantities(map, files) ==
    IF files = << >>
    THEN 0
    ELSE (IF SupportedImage(Head(files)) THEN ResolveQty(map, Head(files)) ELSE 0)
         + SumQuantities(map, Tail(files))

\* The same over the considered directories from position i on.
RECURSIVE SumLevels(_)
SumLevels(i) ==
    IF i > Len(walk)
    THEN 0
    ELSE (IF Considered(i) THEN SumQuantities(qty_map[i], walk[i].files) ELSE 0)
         + SumLevels(i + 1)

\* The walks that differ from w only in the enumeration order of the files
\* of each directory.
Reorderings(w) ==
    LET Orders(i) == { [ root |-> w[i].root, files |-> e ] :
                         e \in Enumerations(Range(w[i].files)) }
    IN  { v \in [ DOMAIN w -> UNION { Orders(i) : i \in DOMAIN w } ] :
            \A i \in DOMAIN w : v[i] \in Orders(i) }

(***************************************************************************)
(* C1 as claimed.  In a directory whose files are considered, a-x<N>.png   *)
(* is emitted N times when the directory's quantity map has no entry for   *)
(* the stem a, and q times when it maps the stem a to q.                   *)
(***************************************************************************)
C1_StemEntryWins ==
    pc # "main" =>
        \A i \in Levels, N \in 0..MaxQty :
            (Considered(i) /\ ImgA(N) \in Range(walk[i].files)) =>
                CopiesOf(i, ImgA(N)) = IF << "a" >> \in DOMAIN qty_map[i]
                                       THEN qty_map[i][<< "a" >>]
                                       ELSE N

(***************************************************************************)
(* C1 as amended.  In a directory whose files are considered, a-x<N>.png   *)
(* is emitted q times when the directory's quantity map maps its base name *)
(* a-x<N> (the file name without extension) to q, and N times otherwise,   *)
(* whatever the map holds for the stem a.                                  *)
(***************************************************************************)
C1_BaseNameEntryWins ==
    pc # "main" =>
        \A i \in Levels, N \in 0..MaxQty :
            (Considered(i) /\ ImgA(N) \in Range(walk[i].files)) =>
                CopiesOf(i, ImgA(N)) = IF BaseA(N) \in DOMAIN qty_map[i]
                                       THEN qty_map[i][BaseA(N)]
                                       ELSE N

\* a-x<N>.png collected with a quantity file that maps a-x<N> to q # N and
\* the stem a to something else.
C1_Witness ==
    /\ pc # "main"
    /\ \E i \in Levels, N \in 0..MaxQty :
          /\ ImgA(N) \in Range(walk[i].files)
          /\ BaseA(N) \in DOMAIN qty_map[i]
          /\ << "a" >> \in DOMAIN qty_map[i]
          /\ qty_map[i][BaseA(N)] # N
          /\ qty_map[i][<< "a" >>] # qty_map[i][BaseA(N)]
          /\ CopiesOf(i, ImgA(N)) = qty_map[i][BaseA(N)]

(***************************************************************************)
(* C6.  When parse_quantity_file warned for a directory (the file could    *)
(* not be read or a line failed to parse), the directory's quantity map is *)
(* empty and every image of the directory has its file-name quantity.      *)
(***************************************************************************)
C6_FailureGivesEmptyMap ==
    pc # "main" =>
        \A i \in Levels :
            warned[i] =>
                /\ qty_map[i] = EmptyMap
                /\ \A f \in Range(walk[i].files) :
                      SupportedImage(f) => CopiesOf(i, f) = parse_quantity_from_name(f)

(***************************************************************************)
(* C8.  Whatever the enumeration order of the files: the result has as     *)
(* many entries as the quantities of the supported image files of the      *)
(* considered directories add up to, each such image file has exactly its  *)
(* quantity of entries and any other file none, the entries of a directory *)
(* are in case-insensitive file name order with the copies of one file     *)
(* adjacent, the directories follow each other in the order of the walk,   *)
(* and when no two names of a directory differ only in case the result is  *)
(* the same for every enumeration order of the files.                      *)
(***************************************************************************)
C8_CollectOrderAndLength ==
    pc # "main" =>
        /\ Len(image_paths) = SumLevels(1)
        /\ \A o \in Origins :
              CopiesOf(o[1], o[2]) = IF Considered(o[1]) /\ SupportedImage(o[2])
                                     THEN ResolveQty(qty_map[o[1]], o[2])
                                     ELSE 0
        /\ \A k \in 1..Len(image_paths) :
              \E o \in Origins : image_paths[k] = EntryPath(o[1], o[2])
        /\ \A k, l \in 1..Len(image_paths) :
              k < l => LET a == Origin(image_paths[k])
                           b == Origin(image_paths[l])
                       IN  /\ a[1] <= b[1]
                           /\ a[1] = b[1] => ~StrLess(Lower(b[2]), Lower(a[2]))
        /\ \A k, m, l \in 1..Len(image_paths) :
              (k < m /\ m < l /\ image_paths[k] = image_paths[l])
                  => image_paths[m] = image_paths[k]
        /\ (\A i \in Levels : \A f, g \in Range(walk[i].files) : Lower(f) = Lower(g) => f = g)
              => \A w \in Reorderings(walk) :
                    image_paths = collect_images(Folder, ~no_subfolders, w, contents)

\* A directory enumerated out of order, holding a file that is no image, an
\* image of quantity above 1 and two images whose names differ only in case.
C8_Witness ==
    /\ pc # "main"
    /\ \E i \in Levels :
          /\ walk[i].files # SortedFiles(walk[i].files)
          /\ \E f \in Range(walk[i].files) : ~SupportedImage(f)
          /\ \E f \in Range(walk[i].files) : CopiesOf(i, f) >= 2
          /\ \E f, g \in Range(walk[i].files) :
                f # g /\ Lower(f) = Lower(g) /\ CopiesOf(i, f) >= 1 /\ CopiesOf(i, g) >= 1

=============================================================================
